---- MODULE Spec2Model ----
(***************************************************************************)
(* Copy control of class Apple (cpp/class/copy_control/function.cpp).      *)
(*                                                                         *)
(* The heap of std::string payloads, the shared_ptr use counts, the Apple  *)
(* objects and the lines written to std::cout are the state.  The driver   *)
(* is either the repository's main() (pc = "l21" .. "done") or an          *)
(* arbitrary client of the class (pc = "client") that constructs, copies,  *)
(* assigns, destroys and passes objects in any order.                      *)
(***************************************************************************)
EXTENDS Integers, Sequences, FiniteSets, TLC

\* ---- bounds ----
MaxObjs == 3        \* objects the arbitrary client may hold
MaxOut == 4         \* lines after which the arbitrary client stops

\* ---- universe ----
NULL == 0
app == 0                              \* the by-value parameter of func
Slots == 1..MaxObjs                   \* named objects (_1, _2, _3, ...)
Objs == {app} \cup Slots
Addr == 1..(MaxObjs + 2)              \* every object, app and one temporary
EmptyString == <<>>
Garbage == <<"?">>
StrVals == {EmptyString, Garbage}     \* what a read of freed memory may give
FreeCell == [live |-> FALSE, str |-> EmptyString, rc |-> 0]

VARIABLES name, alive, heap, out, rv, ub, pc, fpc, ret, chain
vars == <<name, alive, heap, out, rv, ub, pc, fpc, ret, chain>>

\* the part of the state the member functions of Apple work on
Cur == [name |-> name, alive |-> alive, heap |-> heap, out |-> out,
        rv |-> rv, ub |-> ub]
Set(st) ==
    /\ name' = st.name
    /\ alive' = st.alive
    /\ heap' = st.heap
    /\ out' = st.out
    /\ rv' = st.rv
    /\ ub' = st.ub

\* ---- std::string / std::shared_ptr ----
FreeAddr(h) == {a \in Addr : ~h[a].live}
LiveAddr(h) == {a \in Addr : h[a].live}

\* operator new: where the next string is placed.  An address is a label:
\* every operation and every property is unchanged by renaming addresses,
\* so the allocator is the first-fit one (lowest free place), which reaches
\* one representative of each class of heaps equal up to renaming.
NewAddr(h) == {a \in FreeAddr(h) : \A x \in FreeAddr(h) : a <= x}

\* std::string copy constructor: character by character
StringCopy(s) == [k \in 1..Len(s) |-> s[k]]

\* shared_ptr<string>(new string(s)) / make_shared<string>(s) placed at a
SpNew(h, a, s) == [h EXCEPT ![a] = [live |-> TRUE, str |-> s, rc |-> 1]]

\* a shared_ptr lets go of p: the string is reclaimed with the last owner
SpRelease(h, p) ==
    IF p = NULL \/ ~h[p].live THEN h
    ELSE IF h[p].rc = 1 THEN [h EXCEPT ![p] = FreeCell]
    ELSE [h EXCEPT ![p].rc = @ - 1]

\* shared_ptr copy: one more owner of the same string
SpShare(h, p) == IF p = NULL THEN h ELSE [h EXCEPT ![p].rc = @ + 1]

\* *p : the values the read can produce; undefined when p owns nothing live
DerefUB(h, p) == p = NULL \/ ~h[p].live
Deref(h, p) == IF DerefUB(h, p) THEN StrVals ELSE {h[p].str}

\* cout << line << endl
Log(st, line) == [st EXCEPT !.out = Append(@, line)]

\* ---- class Apple ----
DefaultCtorNull(st, self, a) ==
    Log([st EXCEPT !.name[self] = NULL, !.alive = @ \cup {self}],
        "default constructor")

\* Apple() : name(new string)
DefaultCtor(st, self, a) ==
    Log([st EXCEPT !.heap = SpNew(@, a, EmptyString),
                   !.name[self] = a,
                   !.alive = @ \cup {self}],
        "default constructor")

CopyCtorAlias(st, self, src, a, s) ==
    Log([st EXCEPT !.heap = SpShare(@, st.name[src]),
                   !.name[self] = st.name[src],
                   !.alive = @ \cup {self}],
        "copy constructor")

CopyCtorNull(st, self, src, a, s) ==
    Log([st EXCEPT !.name[self] = NULL, !.alive = @ \cup {self}],
        "copy constructor")

\* Apple(const Apple &copy_instance) : name(new string(*copy_instance.name))
\* s is the value read through copy_instance.name, a the new string's place
CopyCtor(st, self, src, a, s) ==
    Log([st EXCEPT !.ub = @ \/ DerefUB(st.heap, st.name[src]),
                   !.heap = SpNew(@, a, StringCopy(s)),
                   !.name[self] = a,
                   !.alive = @ \cup {self}],
        "copy constructor")

OperatorAssignAlias(st, self, op, a, s) ==
    LET shared == SpShare(st.heap, st.name[op])
    IN  Log([st EXCEPT !.heap = SpRelease(shared, st.name[self]),
                       !.name[self] = st.name[op],
                       !.rv = self],
            "operator=")

OperatorAssignRetOp(st, self, op, a, s) ==
    LET made == SpNew(st.heap, a, StringCopy(s))
    IN  Log([st EXCEPT !.ub = @ \/ DerefUB(st.heap, st.name[op]),
                       !.heap = SpRelease(made, st.name[self]),
                       !.name[self] = a,
                       !.rv = op],
            "operator=")

\* name.reset() first, make_shared<string>(*op.name) second: *op.name is
\* read after the release
OperatorAssignReleaseFirst(st, self, op, a, s) ==
    LET released == SpRelease(st.heap, st.name[self])
        s2 == IF DerefUB(released, st.name[op]) THEN Garbage ELSE s
    IN  Log([st EXCEPT !.ub = @ \/ DerefUB(released, st.name[op]),
                       !.heap = SpNew(released, a, StringCopy(s2)),
                       !.name[self] = a,
                       !.rv = self],
            "operator=")

\* Apple &operator=(const Apple &op)
\*   { name = make_shared<string>(*op.name); cout << ...; return *this; }
\* the temporary is made (reading *op.name) while self still owns its old
\* string; the move assignment to name then releases the old string
OperatorAssign(st, self, op, a, s) ==
    LET made == SpNew(st.heap, a, StringCopy(s))
    IN  Log([st EXCEPT !.ub = @ \/ DerefUB(st.heap, st.name[op]),
                       !.heap = SpRelease(made, st.name[self]),
                       !.name[self] = a,
                       !.rv = self],
            "operator=")

DtorLeak(st, self) ==
    [st EXCEPT !.name[self] = NULL, !.alive = @ \ {self}]

\* implicit ~Apple(): destroys the member name
Dtor(st, self) ==
    [st EXCEPT !.heap = SpRelease(@, st.name[self]),
               !.name[self] = NULL,
               !.alive = @ \ {self}]

\* ---- free functions ----
FuncCallByRef(st, arg, a, s) == st

\* func(arg): the parameter app is copy-initialised from the argument
FuncCall(st, arg, a, s) == CopyCtor(st, app, arg, a, s)

\* void func(Apple app) { cout << "func" << endl; }
FuncBodyOp(st) == Log(st, "func")

RFuncByValue(st, arg) ==
    LET a == CHOOSE x \in FreeAddr(st.heap) : TRUE
        copied == CopyCtor(st, app, arg, a, st.heap[st.name[arg]].str)
    IN  Dtor(Log(copied, "r_func"), app)

\* void r_func(Apple &app) { cout << "r_func" << endl; }
RFunc(st, arg) == Log(st, "r_func")

\* void p_func(Apple *app) { cout << "p_func" << endl; }
PFunc(st, arg) == Log(st, "p_func")

\* ---- initial state ----
Init ==
    /\ name = [o \in Objs |-> NULL]
    /\ alive = {}
    /\ heap = [a \in Addr |-> FreeCell]
    /\ out = <<>>
    /\ rv = NULL
    /\ ub = FALSE
    /\ pc \in {"l21", "client"}
    /\ fpc = "none"
    /\ ret = -1
    /\ chain = <<>>

\* ---- the body of func, shared by both drivers ----
FuncBody ==
    /\ fpc = "l34"
    /\ Set(FuncBodyOp(Cur))
    /\ fpc' = "l35"
    /\ UNCHANGED <<pc, ret, chain>>

\* func returns: app is destroyed, main continues at line 27
FuncReturn ==
    /\ fpc = "l35"
    /\ Set(Dtor(Cur, app))
    /\ fpc' = "none"
    /\ pc' = IF pc = "l26" THEN "l27" ELSE pc
    /\ UNCHANGED <<ret, chain>>

\* ---- main ----
\* Apple _1;
MainL21 ==
    /\ pc = "l21"
    /\ \E a \in NewAddr(heap) : Set(DefaultCtor(Cur, 1, a))
    /\ pc' = "l22"
    /\ UNCHANGED <<fpc, ret, chain>>

\* Apple _2(_1);
MainL22 ==
    /\ pc = "l22"
    /\ \E a \in NewAddr(heap), s \in Deref(heap, name[1]) :
          Set(CopyCtor(Cur, 2, 1, a, s))
    /\ pc' = "l23"
    /\ UNCHANGED <<fpc, ret, chain>>

MainL23Assign ==
    /\ pc = "l23"
    /\ \E a0 \in NewAddr(heap) :
          LET st0 == DefaultCtor(Cur, 3, a0)
          IN  \E a \in NewAddr(st0.heap), s \in Deref(st0.heap, st0.name[2]) :
                 Set(OperatorAssign(st0, 3, 2, a, s))
    /\ pc' = "l25"
    /\ UNCHANGED <<fpc, ret, chain>>

\* Apple _3 = _2;   copy-initialisation: the copy constructor
MainL23 ==
    /\ pc = "l23"
    /\ \E a \in NewAddr(heap), s \in Deref(heap, name[2]) :
          Set(CopyCtor(Cur, 3, 2, a, s))
    /\ pc' = "l25"
    /\ UNCHANGED <<fpc, ret, chain>>

\* cout << "test func parameter" << endl;
MainL25 ==
    /\ pc = "l25"
    /\ Set(Log(Cur, "test func parameter"))
    /\ pc' = "l26"
    /\ UNCHANGED <<fpc, ret, chain>>

\* func(_1);   control enters func, main resumes when func returns
MainL26 ==
    /\ pc = "l26"
    /\ fpc = "none"
    /\ \E a \in NewAddr(heap), s \in Deref(heap, name[1]) :
          Set(FuncCall(Cur, 1, a, s))
    /\ fpc' = "l34"
    /\ UNCHANGED <<pc, ret, chain>>

\* r_func(_1);
MainL27 ==
    /\ pc = "l27"
    /\ Set(RFunc(Cur, 1))
    /\ pc' = "l28"
    /\ UNCHANGED <<fpc, ret, chain>>

\* p_func(&_1);
MainL28 ==
    /\ pc = "l28"
    /\ Set(PFunc(Cur, 1))
    /\ pc' = "l30"
    /\ UNCHANGED <<fpc, ret, chain>>

\* return 0;
MainL30 ==
    /\ pc = "l30"
    /\ ret' = 0
    /\ pc' = "l31"
    /\ UNCHANGED <<name, alive, heap, out, rv, ub, fpc, chain>>

\* } : the locals are destroyed in reverse order of construction
MainL31 ==
    /\ pc = "l31"
    /\ alive \cap Slots # {}
    /\ LET last == CHOOSE o \in alive \cap Slots :
                      \A q \in alive \cap Slots : q <= o
       IN  /\ Set(Dtor(Cur, last))
           /\ pc' = IF alive \cap Slots = {last} THEN "done" ELSE "l31"
    /\ UNCHANGED <<fpc, ret, chain>>

Main ==
    \/ MainL21 \/ MainL22 \/ MainL23 \/ MainL25 \/ MainL26
    \/ MainL27 \/ MainL28 \/ MainL30 \/ MainL31

\* ---- an arbitrary client of the class ----
\* the client is between two statements and has written fewer than MaxOut
\* lines
ClientReady ==
    /\ pc = "client"
    /\ fpc = "none"
    /\ chain = <<>>
    /\ Len(out) < MaxOut

\* Apple x;
ClientDefault(i) ==
    /\ ClientReady
    /\ i \notin alive
    /\ \E a \in NewAddr(heap) : Set(DefaultCtor(Cur, i, a))
    /\ UNCHANGED <<pc, fpc, ret, chain>>

\* Apple x(y);
ClientCopy(i, j) ==
    /\ ClientReady
    /\ i \notin alive
    /\ j \in alive
    /\ \E a \in NewAddr(heap), s \in Deref(heap, name[j]) :
          Set(CopyCtor(Cur, i, j, a, s))
    /\ UNCHANGED <<pc, fpc, ret, chain>>

\* x = y;   (x = x included)
ClientAssign(i, j) ==
    /\ ClientReady
    /\ i \in alive
    /\ j \in alive
    /\ \E a \in NewAddr(heap), s \in Deref(heap, name[j]) :
          Set(OperatorAssign(Cur, i, j, a, s))
    /\ UNCHANGED <<pc, fpc, ret, chain>>

\* z = y = x;   the right assignment y = x is evaluated first; <<z, y, x>>
\* is the statement whose left assignment is still to run
ClientChain(c, b, a) ==
    /\ ClientReady
    /\ {a, b, c} \subseteq alive
    /\ \E a1 \in NewAddr(heap), s \in Deref(heap, name[a]) :
          Set(OperatorAssign(Cur, b, a, a1, s))
    /\ chain' = <<c, b, a>>
    /\ UNCHANGED <<pc, fpc, ret>>

\* z = (what y = x returned);
ClientChainOuter ==
    /\ pc = "client"
    /\ chain # <<>>
    /\ \E a2 \in NewAddr(heap), s \in Deref(heap, name[rv]) :
          Set(OperatorAssign(Cur, chain[1], rv, a2, s))
    /\ chain' = <<>>
    /\ UNCHANGED <<pc, fpc, ret>>

\* x goes out of scope
ClientDestroy(i) ==
    /\ pc = "client"
    /\ fpc = "none"
    /\ chain = <<>>
    /\ i \in alive
    /\ Set(Dtor(Cur, i))
    /\ UNCHANGED <<pc, fpc, ret, chain>>

\* func(x);
ClientFunc(j) ==
    /\ ClientReady
    /\ j \in alive
    /\ \E a \in NewAddr(heap), s \in Deref(heap, name[j]) :
          Set(FuncCall(Cur, j, a, s))
    /\ fpc' = "l34"
    /\ UNCHANGED <<pc, ret, chain>>

\* r_func(x);
ClientRFunc(j) ==
    /\ ClientReady
    /\ j \in alive
    /\ Set(RFunc(Cur, j))
    /\ UNCHANGED <<pc, fpc, ret, chain>>

\* p_func(&x);
ClientPFunc(j) ==
    /\ ClientReady
    /\ j \in alive
    /\ Set(PFunc(Cur, j))
    /\ UNCHANGED <<pc, fpc, ret, chain>>

Client ==
    \/ \E i \in Slots : ClientDefault(i)
    \/ \E i, j \in Slots : ClientCopy(i, j)
    \/ \E i, j \in Slots : ClientAssign(i, j)
    \/ \E c, b, a \in Slots : ClientChain(c, b, a)
    \/ ClientChainOuter
    \/ \E i \in Slots : ClientDestroy(i)
    \/ \E j \in Slots : ClientFunc(j)
    \/ \E j \in Slots : ClientRFunc(j)
    \/ \E j \in Slots : ClientPFunc(j)

Next == Main \/ Client \/ FuncBody \/ FuncReturn

Spec == Init /\ [][Next]_vars

TypeOK ==
    /\ name \in [Objs -> Addr \cup {NULL}]
    /\ alive \subseteq Objs
    /\ \A a \in Addr : heap[a].live \in BOOLEAN /\ heap[a].rc \in 0..(MaxObjs + 2)
    /\ ub \in BOOLEAN
    /\ fpc \in {"none", "l34", "l35"}
    /\ ret \in {-1, 0}
    /\ chain = <<>> \/ chain \in Slots \X Slots \X Slots

\* ---- helpers of the properties ----
Last(q) == q[Len(q)]
EndsWith(q, t) ==
    /\ Len(q) >= Len(t)
    /\ \A k \in 1..Len(t) : q[Len(q) - Len(t) + k] = t[k]
IsPrefix(q, t) ==
    /\ Len(q) <= Len(t)
    /\ \A k \in 1..Len(q) : q[k] = t[k]
Lines(q) == {q[k] : k \in 1..Len(q)}
Owners(a) == {o \in alive : name[o] = a}

ExpectedOut ==
    <<"default constructor", "copy constructor", "copy constructor",
      "test func parameter", "copy constructor", "func", "r_func", "p_func">>
ClaimedOut ==
    <<"default constructor", "copy constructor", "copy constructor",
      "operator=", "test func parameter", "copy constructor", "func",
      "r_func", "p_func">>

\* C1 (as stated): when main has returned, the log is default constructor,
\* copy constructor, copy constructor, operator=, test func parameter,
\* copy constructor, func, r_func, p_func and the exit code is 0.
C1_Original == pc = "done" => out = ClaimedOut /\ ret = 0

\* C1 (amended): main writes exactly default constructor, copy constructor,
\* copy constructor, test func parameter, copy constructor, func, r_func,
\* p_func, in this order with nothing else (no operator= line: Apple _3 = _2
\* is a copy construction), it never stops before its end, and it ends with
\* exit code 0.
C1_MainOutput ==
    pc # "client" =>
        /\ IsPrefix(out, ExpectedOut)
        /\ pc # "done" => ENABLED Next
        /\ pc = "done" => out = ExpectedOut /\ ret = 0
C1_Witness == pc = "done" /\ out = ExpectedOut /\ ret = 0

\* C2: no two distinct live Apple objects hold the same payload allocation;
\* every live allocation has use count 1 and exactly one owner.
C2_NoSharedPayload ==
    /\ \A o1, o2 \in alive : o1 # o2 => name[o1] # name[o2]
    /\ \A a \in LiveAddr(heap) :
          heap[a].rc = 1 /\ Cardinality(Owners(a)) = 1
C2_Witness ==
    /\ pc = "client"
    /\ alive = Slots
    /\ Last(out) = "operator="
    /\ "copy constructor" \in Lines(out)

\* C3: the handle name of every live Apple object is non-null and refers to
\* a live string allocation.
C3_PayloadPresent ==
    \A o \in alive : name[o] # NULL /\ heap[name[o]].live
C3_Witness ==
    /\ pc = "client"
    /\ Cardinality(alive) = 2
    /\ EndsWith(out, <<"copy constructor", "operator=">>)
    /\ \A o \in alive : heap[name[o]].str = EmptyString

CopyPost(b, a) ==
    /\ out' = Append(out, "copy constructor")
    /\ b \in alive'
    /\ name'[b] # NULL
    /\ name'[b] # name[a]
    /\ ~heap[name'[b]].live
    /\ heap'[name'[b]].live
    /\ heap'[name'[b]].rc = 1
    /\ heap'[name'[b]].str = heap[name[a]].str
    /\ name'[a] = name[a]
    /\ heap'[name[a]] = heap[name[a]]

\* C4: copy construction of B from a live A writes exactly one line,
\* copy constructor; B's content is A's content at the time of the copy and
\* B's allocation is fresh, distinct from A's.
C4_CopyConstruct ==
    [][/\ \A b, a \in Slots : ClientCopy(b, a) => CopyPost(b, a)
       /\ MainL22 => CopyPost(2, 1)
       /\ MainL23 => CopyPost(3, 2)]_vars
C4_Witness ==
    /\ pc = "client"
    /\ Cardinality(alive) >= 2
    /\ Last(out) = "copy constructor"

AssignPost(b, a) ==
    /\ out' = Append(out, "operator=")
    /\ name'[b] # NULL
    /\ heap'[name'[b]].live
    /\ heap'[name'[b]].str = heap[name[a]].str
    /\ heap'[name'[b]].str = heap'[name'[a]].str
    /\ rv' = b
ChainOuterPost ==
    /\ rv = chain[2]
    /\ out' = Append(out, "operator=")
    /\ EndsWith(out', <<"operator=", "operator=">>)
    /\ name'[chain[1]] # NULL
    /\ heap'[name'[chain[1]]].live
    /\ heap'[name'[chain[1]]].str = heap[name[chain[3]]].str
    /\ heap'[name'[chain[1]]].str = heap'[name'[chain[3]]].str
    /\ rv' = chain[1]

\* C5: B = A writes exactly one line, operator=, leaves B's content equal to
\* A's and returns a reference to B; C = B = A is two assignments (two
\* operator= lines, B = A first, C assigned from the returned B) and leaves
\* C's content equal to A's.
C5_CopyAssign ==
    [][/\ \A b, a \in Slots : ClientAssign(b, a) => AssignPost(b, a)
       /\ (chain = <<>> /\ chain' # <<>>) =>
             (ClientChain(chain'[1], chain'[2], chain'[3])
                 => AssignPost(chain'[2], chain'[3]))
       /\ ClientChainOuter => ChainOuterPost]_vars
C5_Witness ==
    /\ pc = "client"
    /\ alive = Slots
    /\ out = <<"default constructor", "default constructor",
               "default constructor", "operator=", "operator=">>
    /\ chain = <<>>
    /\ rv # NULL

DefaultPost(b) ==
    /\ out' = Append(out, "default constructor")
    /\ b \in alive'
    /\ name'[b] # NULL
    /\ ~heap[name'[b]].live
    /\ heap'[name'[b]] = [live |-> TRUE, str |-> EmptyString, rc |-> 1]
    /\ \A o \in alive' : name'[o] = name'[b] => o = b

\* C6: default construction writes exactly one line, default constructor,
\* and yields a freshly allocated empty string with use count 1 owned by the
\* new object alone.
C6_DefaultConstruct ==
    [][/\ \A b \in Slots : ClientDefault(b) => DefaultPost(b)
       /\ MainL21 => DefaultPost(1)]_vars
C6_Witness ==
    /\ pc = "client"
    /\ Cardinality(alive) >= 2
    /\ Last(out) = "default constructor"

FuncCallPost(a) ==
    /\ out' = Append(out, "copy constructor")
    /\ app \in alive'
    /\ name'[app] # NULL
    /\ heap'[name'[app]].live
    /\ rv' = rv
    /\ fpc' = "l34"

\* C7: a call of func on a constructed object makes exactly one copy
\* construction (the parameter) and no assignment, and its copy constructor
\* line comes right before the body's func line.
C7_ByValueCall ==
    [][/\ \A a \in Slots : ClientFunc(a) => FuncCallPost(a)
       /\ MainL26 => FuncCallPost(1)
       /\ FuncBody => out' = Append(out, "func") /\ rv' = rv
       /\ FuncReturn => out' = out /\ rv' = rv
       /\ fpc' = "l34" => Len(out') > 0 /\ Last(out') = "copy constructor"
       /\ fpc' = "l35" => EndsWith(out', <<"copy constructor", "func">>)]_vars
C7_Witness ==
    /\ fpc = "l35"
    /\ app \in alive
    /\ EndsWith(out, <<"copy constructor", "func">>)

NoCopyPost(line) ==
    /\ out' = Append(out, line)
    /\ name' = name
    /\ heap' = heap
    /\ alive' = alive
    /\ rv' = rv

\* C8: r_func and p_func, called any number of times in any order on the
\* same object, copy and assign nothing, leave the payload content,
\* allocation and use count unchanged and write only their own line.
C8_ByRefByPtr ==
    [][/\ \A a \in Slots : ClientRFunc(a) => NoCopyPost("r_func")
       /\ \A a \in Slots : ClientPFunc(a) => NoCopyPost("p_func")
       /\ MainL27 => NoCopyPost("r_func")
       /\ MainL28 => NoCopyPost("p_func")]_vars
C8_Witness ==
    /\ pc = "client"
    /\ EndsWith(out, <<"r_func", "p_func", "r_func">>)

SelfAssignPost(a) ==
    /\ out' = Append(out, "operator=")
    /\ name'[a] # NULL
    /\ name'[a] # name[a]
    /\ ~heap[name'[a]].live
    /\ heap'[name'[a]].live
    /\ ~heap'[name[a]].live
    /\ heap'[name'[a]].str = heap[name[a]].str
    /\ ub' = ub

\* C9: A = A still writes operator=, allocates a fresh payload and replaces
\* A's handle with it; the old payload is read before it is released (no
\* read of a released allocation) and A's content is unchanged.
C9_SelfAssign ==
    [][\A a \in Slots : ClientAssign(a, a) => SelfAssignPost(a)]_vars
C9_Witness ==
    /\ pc = "client"
    /\ out = <<"default constructor", "operator=">>
    /\ ~ub

\* C10: payloads are reclaimed with their last owner: the number of live
\* allocations equals the number of live objects in every state, and
\* nothing is live once main has returned.
C10_Reclaimed ==
    /\ Cardinality(LiveAddr(heap)) = Cardinality(alive)
    /\ pc = "done" => LiveAddr(heap) = {} /\ alive = {}
C10_Witness ==
    /\ pc = "done"
    /\ LiveAddr(heap) = {}
    /\ "func" \in Lines(out)
====
